---- MODULE Spec2Model ----
(***************************************************************************)
(* Model of cmd/litefs/mount_linux.go: MountCommand.Validate, Run, the     *)
(* init helpers, execCmds and promote, together with the parts of the      *)
(* Store / Leaser / peer they talk to.                                      *)
(***************************************************************************)
EXTENDS Integers, Sequences, FiniteSets, TLC

\* ------------------------------------------------------------------ bounds
\* Longest "exec" list of a configuration.
MaxExec == 2
\* Number of 1ms poll intervals in the 10s promotion timeout (10000 in the
\* code, scaled down).
TimeoutTicks == 2

\* --------------------------------------------------------------- constants
LeaseTypeConsul == "consul"
LeaseTypeStatic == "static"

\* Lease types a configuration file may carry: the two valid ones, the empty
\* string and an unknown one.
LeaseTypes == {LeaseTypeConsul, LeaseTypeStatic, "", "etcd"}

\* Directory names a configuration may carry (FUSE.Dir, Data.Dir).
Dirs == {"", "/litefs", "/var/lib/litefs"}

ExecEntries == [ifCandidate : BOOLEAN]
ExecLists == UNION {[1..n -> ExecEntries] : n \in 0..MaxExec}

Configs ==
    [leaseType : LeaseTypes, candidate : BOOLEAN, promote : BOOLEAN,
     skipSync : BOOLEAN, proxyTarget : BOOLEAN, exec : ExecLists]

VARIABLES
    Config,         \* c.Config (the fields Run reads)
    pc,             \* position of the goroutine running main: Validate / Run / promote / execCmds
    validateErr,    \* what Validate returned ("none": not called)
    runErr,         \* what Run returned ("none": not returned yet)
    ctxDone,        \* the context handed to Run has been cancelled
    \* Store
    storeInit,      \* c.Store != nil
    storeCandidate, \* Store.candidate
    storeLeaser,    \* Store.Leaser
    storeOpen,      \* Store.Open() succeeded
    ready,          \* Store.ReadyCh() is closed
    isPrimary,      \* Store.IsPrimary()
    \* MountCommand fields
    Leaser,         \* c.Leaser: "nil", "consul", "static"
    staticPrimary,  \* the primary flag given to NewStaticLeaser
    FileSystem,     \* c.FileSystem: "nil", "mounted"
    HTTPServer,     \* c.HTTPServer: "nil", "listening", "serving"
    ProxyServer,    \* c.ProxyServer: "nil", "listening", "serving"
    \* lease backend
    lease,          \* holder of the lock key: "none", "local", "peer"
    peerPrimary,    \* the other node's own lease state is Primary
    acquiredAt,     \* clock reading when the local node last acquired the lease
    \* promote
    promoteErr,     \* what promote returned ("none": not returned / not called)
    entryPrimary,   \* promote's local isPrimary, from Store.PrimaryInfo(): "none" (not read), "primary", "replica"
    handoffErr,     \* what client.Handoff returned ("none": not returned)
    handoffSent,    \* number of handoff requests sent to a peer
    polled,         \* promote created its timers and entered the poll loop
    cancelledInPromote, \* ctx was cancelled while promote was blocked, its timeout not yet fired
    clock,          \* poll intervals elapsed since promote created its timers
    tickerC,        \* values buffered in ticker.C  (capacity 1)
    timeoutC,       \* values buffered in timeout.C (capacity 1)
    \* execCmds
    execIdx,        \* loop index i (1-based), 0 outside the loop
    cmdRunning,     \* index of the synchronous command c.cmd.Run() is blocked in, or 0
    execLog,        \* commands started so far: sequence of [i, mode]
    bgState,        \* background command: "none", "running", "exited"
    execChSent,     \* number of values sent on c.execCh
    cmdErr,         \* the last error of shellwords.Parse, c.cmd.Run() or c.cmd.Start() ("none": none called)
    \* initConsul
    consulOpens,    \* number of calls of leaser.Open()
    consulOpenErr,  \* what leaser.Open() returned ("none": not called)
    \* Close
    closeLog,       \* components Close has shut down, in the order of the calls
    closeFailed,    \* components whose Close / Unmount returned an error
    closeErr        \* what Close returned ("none": not called)

storeVars == <<storeInit, storeCandidate, storeLeaser, storeOpen, ready, isPrimary>>
cmdVars == <<Leaser, staticPrimary, FileSystem, HTTPServer, ProxyServer>>
leaseVars == <<lease, peerPrimary, acquiredAt>>
timerVars == <<clock, tickerC, timeoutC>>
promoteVars == <<promoteErr, entryPrimary, handoffErr, handoffSent, polled,
                 cancelledInPromote>>
execVars == <<execIdx, cmdRunning, execLog, bgState, execChSent>>

consulVars == <<consulOpens, consulOpenErr>>
closeVars == <<closeLog, closeFailed, closeErr>>

vars == <<Config, pc, validateErr, runErr, ctxDone, storeVars, cmdVars,
          leaseVars, timerVars, promoteVars, execVars, cmdErr, consulVars, closeVars>>

\* ------------------------------------------------------------------- Init
\* NewMountCommand() followed by ParseFlags: every field is nil, the
\* configuration is any of Configs.
Init ==
    /\ Config \in Configs
    /\ pc = "new"
    /\ validateErr = "none"
    /\ runErr = "none"
    /\ ctxDone = FALSE
    /\ storeInit = FALSE
    /\ storeCandidate = FALSE
    /\ storeLeaser = "nil"
    /\ storeOpen = FALSE
    /\ ready = FALSE
    /\ isPrimary = FALSE
    /\ Leaser = "nil"
    /\ staticPrimary = FALSE
    /\ FileSystem = "nil"
    /\ HTTPServer = "nil"
    /\ ProxyServer = "nil"
    /\ lease = "none"
    /\ peerPrimary = FALSE
    /\ acquiredAt = 0
    /\ promoteErr = "none"
    /\ entryPrimary = "none"
    /\ handoffErr = "none"
    /\ handoffSent = 0
    /\ polled = FALSE
    /\ cancelledInPromote = FALSE
    /\ clock = 0
    /\ tickerC = 0
    /\ timeoutC = 0
    /\ execIdx = 0
    /\ cmdRunning = 0
    /\ execLog = <<>>
    /\ bgState = "none"
    /\ execChSent = 0
    /\ cmdErr = "none"
    /\ consulOpens = 0
    /\ consulOpenErr = "none"
    /\ closeLog = <<>>
    /\ closeFailed = {}
    /\ closeErr = "none"

\* --------------------------------------------------------------- Validate
IsValidLeaseType(s) == s \in {LeaseTypeConsul, LeaseTypeStatic}

\* Validate's return value for the given directories and lease type.
Validate(fuseDir, dataDir, leaseType) ==
    IF fuseDir = "" THEN "fuse directory required"
    ELSE IF dataDir = "" THEN "data directory required"
    ELSE IF fuseDir = dataDir THEN "fuse directory and data directory cannot be the same path"
    ELSE IF ~IsValidLeaseType(leaseType) THEN "invalid lease type"
    ELSE "nil"

\* main calls Validate on the parsed configuration before Run.  The
\* directories are read by nothing else in this model, so they are inputs
\* of this step.
CallValidate ==
    /\ pc = "new"
    /\ validateErr = "none"
    /\ \E fuseDir \in Dirs, dataDir \in Dirs :
          validateErr' = Validate(fuseDir, dataDir, Config.leaseType)
    /\ UNCHANGED <<Config, consulVars, closeVars, cmdErr,
                   pc, runErr, ctxDone, storeVars, cmdVars,
                   leaseVars, timerVars, promoteVars, execVars>>

\* The process goes on to Run only when Validate did not fail (Run may also
\* be called directly, without Validate).
MainProceeds == validateErr \in {"none", "nil"}

\* -------------------------------------------------------------------- Run
\* Run returns err.
Return(err) == pc' = "done" /\ runErr' = err

\* The candidate flag initStore hands to litefs.NewStore.
StoreCandidateFlag_Always == TRUE

StoreCandidateFlag == Config.candidate

initStore ==
    /\ pc = "new"
    /\ MainProceeds
    /\ storeInit' = TRUE
    /\ storeCandidate' = StoreCandidateFlag
    /\ pc' = "initHTTPServer"
    /\ UNCHANGED <<Config, consulVars, closeVars, cmdErr,
                   validateErr, runErr, ctxDone, storeLeaser,
                   storeOpen, ready, isPrimary, cmdVars, leaseVars,
                   timerVars, promoteVars, execVars>>

initHTTPServer ==
    /\ pc = "initHTTPServer"
    /\ \E listenOk \in BOOLEAN :
          IF listenOk
          THEN /\ HTTPServer' = "listening"
               /\ pc' = "initProxyServer"
               /\ UNCHANGED runErr
          ELSE /\ Return("cannot init http server")
               /\ UNCHANGED HTTPServer
    /\ UNCHANGED <<Config, consulVars, closeVars, cmdErr,
                   validateErr, ctxDone, storeVars, Leaser,
                   staticPrimary, FileSystem, ProxyServer, leaseVars,
                   timerVars, promoteVars, execVars>>

initProxyServer ==
    /\ pc = "initProxyServer"
    /\ IF ~Config.proxyTarget
       THEN /\ pc' = "leaser"
            /\ UNCHANGED <<ProxyServer, runErr>>
       ELSE \E outcome \in {"ok", "bad passthrough", "listen failed"} :
               IF outcome = "ok"
               THEN /\ ProxyServer' = "listening"
                    /\ pc' = "leaser"
                    /\ UNCHANGED runErr
               ELSE /\ Return("cannot init proxy server")
                    /\ UNCHANGED ProxyServer
    /\ UNCHANGED <<Config, consulVars, closeVars, cmdErr,
                   validateErr, ctxDone, storeVars, Leaser,
                   staticPrimary, FileSystem, HTTPServer, leaseVars,
                   timerVars, promoteVars, execVars>>

StaticLeaserPrimary_Never == FALSE

\* The primary flag Run hands to litefs.NewStaticLeaser.
StaticLeaserPrimary == Config.candidate

LeaserKind_DefaultStatic(v) ==
    IF v = LeaseTypeConsul THEN "consul" ELSE "static"

\* The switch on Config.Lease.Type: which leaser Run instantiates.
LeaserKind(v) ==
    CASE v = LeaseTypeConsul -> "consul"
      [] v = LeaseTypeStatic -> "static"
      [] OTHER -> "invalid"

InitConsulFails_OpenIgnored(outcome) == outcome = "hostname failed"

\* initConsul returns an error: os.Hostname() failed, or leaser.Open() did.
InitConsulFails(outcome) == outcome # "ok"

\* "Instantiate leaser": the switch on Config.Lease.Type, initConsul
\* included (leaser.Open() is called unless os.Hostname() failed before).
initLeaser ==
    /\ pc = "leaser"
    /\ CASE LeaserKind(Config.leaseType) = "consul" ->
              \E outcome \in {"ok", "hostname failed", "open failed"} :
                 /\ consulOpens' = IF outcome = "hostname failed" THEN consulOpens
                                   ELSE consulOpens + 1
                 /\ consulOpenErr' = CASE outcome = "ok" -> "nil"
                                       [] outcome = "open failed" -> "connection error"
                                       [] OTHER -> consulOpenErr
                 /\ IF InitConsulFails(outcome)
                    THEN /\ Return("cannot init consul")
                         /\ UNCHANGED <<Leaser, staticPrimary>>
                    ELSE /\ Leaser' = "consul"
                         /\ pc' = "openStore"
                         /\ UNCHANGED <<staticPrimary, runErr>>
         [] LeaserKind(Config.leaseType) = "static" ->
              /\ Leaser' = "static"
              /\ staticPrimary' = StaticLeaserPrimary
              /\ pc' = "openStore"
              /\ UNCHANGED <<runErr, consulVars>>
         [] OTHER ->
              /\ Return("invalid lease type")
              /\ UNCHANGED <<Leaser, staticPrimary, consulVars>>
    /\ UNCHANGED <<Config, closeVars, cmdErr, validateErr, ctxDone, storeVars,
                   FileSystem, HTTPServer, ProxyServer, leaseVars, timerVars,
                   promoteVars, execVars>>

openStore ==
    /\ pc = "openStore"
    /\ storeLeaser' = Leaser
    /\ \E openOk \in BOOLEAN :
          IF openOk
          THEN /\ storeOpen' = TRUE
               /\ pc' = "initFileSystem"
               /\ UNCHANGED runErr
          ELSE /\ Return("cannot open store")
               /\ UNCHANGED storeOpen
    /\ UNCHANGED <<Config, consulVars, closeVars, cmdErr,
                   validateErr, ctxDone, storeInit, storeCandidate,
                   ready, isPrimary, cmdVars, leaseVars, timerVars,
                   promoteVars, execVars>>

initFileSystem ==
    /\ pc = "initFileSystem"
    /\ \E mountOk \in BOOLEAN :
          IF mountOk
          THEN /\ FileSystem' = "mounted"
               /\ pc' = "serveHTTP"
               /\ UNCHANGED runErr
          ELSE /\ Return("cannot init file system")
               /\ UNCHANGED FileSystem
    /\ UNCHANGED <<Config, consulVars, closeVars, cmdErr,
                   validateErr, ctxDone, storeVars, Leaser,
                   staticPrimary, HTTPServer, ProxyServer, leaseVars,
                   timerVars, promoteVars, execVars>>

\* Whether Run waits for the store's ReadyCh (and then considers automatic
\* promotion) before going on to the proxy server.
WaitsForReady_Never == FALSE

WaitsForReady == ~Config.skipSync

\* c.HTTPServer.Serve(), then the branch on Config.SkipSync.
serveHTTP ==
    /\ pc = "serveHTTP"
    /\ HTTPServer' = "serving"
    /\ pc' = IF WaitsForReady THEN "waitReady" ELSE "serveProxy"
    /\ UNCHANGED <<Config, consulVars, closeVars, cmdErr,
                   validateErr, runErr, ctxDone, storeVars, Leaser,
                   staticPrimary, FileSystem, ProxyServer, leaseVars,
                   timerVars, promoteVars, execVars>>

\* Store.Candidate(): the flag NewStore was given.
Candidate == storeCandidate

\* "Automatically promote the server if requested & it is a candidate."
AutoPromotes_AnyNode == Config.promote

AutoPromotes == Config.promote /\ Candidate

waitReadyCancelled_Ignored ==
    /\ pc = "waitReady"
    /\ ctxDone
    /\ pc' = "serveProxy"
    /\ UNCHANGED <<Config, consulVars, closeVars, cmdErr, validateErr, runErr,
                   ctxDone, storeVars, cmdVars, leaseVars, timerVars,
                   promoteVars, execVars>>

\* The select on ctx.Done() / Store.ReadyCh(): case <-ctx.Done().
waitReadyCancelled ==
    /\ pc = "waitReady"
    /\ ctxDone
    /\ Return("context canceled")
    /\ UNCHANGED <<Config, consulVars, closeVars, cmdErr,
                   validateErr, ctxDone, storeVars, cmdVars,
                   leaseVars, timerVars, promoteVars, execVars>>

ReadyChFired_Always == TRUE

\* "case <-c.Store.ReadyCh()" can be taken.
ReadyChFired == ready

\* case <-c.Store.ReadyCh(), then the decision on automatic promotion.
waitReadyFired ==
    /\ pc = "waitReady"
    /\ ReadyChFired
    /\ pc' = IF AutoPromotes THEN "promote" ELSE "serveProxy"
    /\ UNCHANGED <<Config, consulVars, closeVars, cmdErr,
                   validateErr, runErr, ctxDone, storeVars, cmdVars,
                   leaseVars, timerVars, promoteVars, execVars>>

\* ---------------------------------------------------------------- promote
\* promote returns err to Run, which returns "promote: err" unless err is
\* nil.  The deferred ticker.Stop() / timeout.Stop() run: the timers are gone.
PromoteReturns(err) ==
    /\ promoteErr' = err
    /\ clock' = 0
    /\ tickerC' = 0
    /\ timeoutC' = 0
    /\ IF err = "nil"
       THEN pc' = "serveProxy" /\ UNCHANGED runErr
       ELSE Return("promote")

\* "node is already primary, skipping promotion": the test on the isPrimary
\* that Store.PrimaryInfo() returned.
SkipsPromotion_Never(primary) == FALSE

SkipsPromotion(primary) == primary

\* Store.PrimaryInfo() and the already-primary check; otherwise the handoff
\* request is sent to info.AdvertiseURL.
promoteEntry ==
    /\ pc = "promote"
    /\ entryPrimary' = IF isPrimary THEN "primary" ELSE "replica"
    /\ IF SkipsPromotion(isPrimary)
       THEN /\ PromoteReturns("nil")
            /\ UNCHANGED handoffSent
       ELSE /\ handoffSent' = handoffSent + 1
            /\ pc' = "handoff"
            /\ UNCHANGED <<promoteErr, runErr, timerVars>>
    /\ UNCHANGED <<Config, consulVars, closeVars, cmdErr,
                   validateErr, ctxDone, storeVars, cmdVars,
                   leaseVars, handoffErr, polled, cancelledInPromote,
                   execVars>>

\* What client.Handoff can return: the context's error once the context is
\* cancelled; otherwise a network error, a rejection, or success ("nil")
\* when the addressed peer holds the lease.
HandoffOutcomes ==
    IF ctxDone THEN {"context canceled"}
    ELSE {"unreachable", "rejected"} \cup (IF lease = "peer" THEN {"nil"} ELSE {})

\* "if err := client.Handoff(...); err != nil".
HandoffFailed_Ignored(err) == FALSE

HandoffFailed(err) == err # "nil"

\* client.Handoff returns.  On an error promote returns it (wrapped as
\* "handoff: err").  On success the peer has demoted itself and released its
\* lease (nothing more to release when it was releasing already), and promote
\* creates the 1ms ticker and the 10s timeout ticker and enters its loop.
handoffReturns ==
    /\ pc = "handoff"
    /\ \E err \in HandoffOutcomes :
          /\ handoffErr' = err
          /\ lease' = IF err = "nil" THEN "none" ELSE lease
          /\ peerPrimary' = IF err = "nil" THEN FALSE ELSE peerPrimary
          /\ IF HandoffFailed(err)
             THEN /\ PromoteReturns(err)
                  /\ UNCHANGED polled
             ELSE /\ pc' = "poll"
                  /\ polled' = TRUE
                  /\ clock' = 0
                  /\ tickerC' = 0
                  /\ timeoutC' = 0
                  /\ UNCHANGED <<promoteErr, runErr>>
    /\ UNCHANGED <<Config, consulVars, closeVars, cmdErr,
                   validateErr, ctxDone, storeVars, cmdVars,
                   acquiredAt, entryPrimary, handoffSent,
                   cancelledInPromote, execVars>>

\* One poll interval passes while promote is in its loop: the ticker
\* delivers a tick (dropped when one is still buffered) and, at the end of
\* the last interval, the timeout ticker delivers too.
TimePasses ==
    /\ pc = "poll"
    /\ clock < TimeoutTicks \/ tickerC = 0
    /\ clock' = IF clock < TimeoutTicks THEN clock + 1 ELSE clock
    /\ tickerC' = 1
    /\ timeoutC' = IF clock' = TimeoutTicks THEN 1 ELSE timeoutC
    /\ UNCHANGED <<Config, consulVars, closeVars, cmdErr,
                   pc, validateErr, runErr, ctxDone, storeVars,
                   cmdVars, leaseVars, promoteVars, execVars>>

PollSeesPrimary_Negated == ~isPrimary

PollSeesPrimary_Always == TRUE

\* "if c.Store.IsPrimary()" inside the loop.
PollSeesPrimary == isPrimary

\* select: case <-ticker.C, then the IsPrimary() check.
pollTick ==
    /\ pc = "poll"
    /\ tickerC = 1
    /\ IF PollSeesPrimary
       THEN PromoteReturns("nil")
       ELSE /\ tickerC' = 0
            /\ UNCHANGED <<pc, runErr, promoteErr, clock, timeoutC>>
    /\ UNCHANGED <<Config, consulVars, closeVars, cmdErr,
                   validateErr, ctxDone, storeVars, cmdVars,
                   leaseVars, entryPrimary, handoffErr, handoffSent, polled,
                   cancelledInPromote, execVars>>

pollTimeout_Continue ==
    /\ pc = "poll"
    /\ timeoutC = 1
    /\ timeoutC' = 0
    /\ UNCHANGED <<Config, consulVars, closeVars, cmdErr,
                   pc, validateErr, runErr, ctxDone, storeVars,
                   cmdVars, leaseVars, clock, tickerC, promoteVars, execVars>>

\* select: case <-timeout.C.
pollTimeout ==
    /\ pc = "poll"
    /\ timeoutC = 1
    /\ PromoteReturns("timeout")
    /\ UNCHANGED <<Config, consulVars, closeVars, cmdErr,
                   validateErr, ctxDone, storeVars, cmdVars,
                   leaseVars, entryPrimary, handoffErr, handoffSent, polled,
                   cancelledInPromote, execVars>>

\* ------------------------------------------------- proxy server, execCmds
ServesProxy_Never == FALSE

\* "if c.ProxyServer != nil".
ServesProxy == ProxyServer # "nil"

\* "Start the proxy server before the subcommand", then the test on
\* len(c.Config.Exec).
serveProxy ==
    /\ pc = "serveProxy"
    /\ ProxyServer' = IF ServesProxy THEN "serving" ELSE ProxyServer
    /\ IF Len(Config.exec) > 0
       THEN pc' = "execCmds" /\ execIdx' = 1 /\ UNCHANGED runErr
       ELSE Return("nil") /\ UNCHANGED execIdx
    /\ UNCHANGED <<Config, consulVars, closeVars, cmdErr,
                   validateErr, ctxDone, storeVars, Leaser,
                   staticPrimary, FileSystem, HTTPServer, leaseVars,
                   timerVars, promoteVars, cmdRunning, execLog, bgState,
                   execChSent>>

\* The loop of execCmds goes on to its next entry, or ends: execCmds and
\* Run return nil.
NextEntry ==
    IF execIdx < Len(Config.exec)
    THEN execIdx' = execIdx + 1 /\ pc' = "execCmds" /\ UNCHANGED runErr
    ELSE execIdx' = 0 /\ Return("nil")

SkipsEntry_Never(i) == FALSE

\* "Skip if command should only run on candidate nodes and this is a
\* non-candidate."
SkipsEntry(i) == Config.exec[i].ifCandidate /\ ~Candidate

RunsSynchronously_OffByOne(i) == i < Len(Config.exec) - 1

\* "Execute all commands synchronously except for the last one": the test
\* i < len(c.Config.Exec)-1 on the 0-based index, here on the 1-based one.
RunsSynchronously(i) == i < Len(Config.exec)

\* shellwords.Parse fails on the entry's command line.
execParseFailed ==
    /\ pc = "execCmds"
    /\ cmdErr' = "parse failed"
    /\ execIdx' = 0
    /\ Return("cannot exec")
    /\ UNCHANGED <<Config, consulVars, closeVars,
                   validateErr, ctxDone, storeVars, cmdVars,
                   leaseVars, timerVars, promoteVars, cmdRunning, execLog,
                   bgState, execChSent>>

execSkip ==
    /\ pc = "execCmds"
    /\ SkipsEntry(execIdx)
    /\ NextEntry
    /\ UNCHANGED <<Config, consulVars, closeVars, cmdErr,
                   validateErr, ctxDone, storeVars, cmdVars,
                   leaseVars, timerVars, promoteVars, cmdRunning, execLog,
                   bgState, execChSent>>

\* execSyncCmd: c.cmd.Run() starts the command and blocks.
execSyncStart ==
    /\ pc = "execCmds"
    /\ ~SkipsEntry(execIdx)
    /\ RunsSynchronously(execIdx)
    /\ cmdRunning' = execIdx
    /\ execLog' = Append(execLog, [i |-> execIdx, mode |-> "sync"])
    /\ pc' = "execSync"
    /\ UNCHANGED <<Config, consulVars, closeVars, cmdErr,
                   validateErr, runErr, ctxDone, storeVars, cmdVars,
                   leaseVars, timerVars, promoteVars, execIdx, bgState,
                   execChSent>>

\* execSyncCmd: c.cmd.Run() returns.
execSyncExit ==
    /\ pc = "execSync"
    /\ cmdRunning' = 0
    /\ \E exitOk \in BOOLEAN :
          /\ cmdErr' = IF exitOk THEN "nil" ELSE "run failed"
          /\ IF exitOk THEN NextEntry
             ELSE execIdx' = 0 /\ Return("cannot exec")
    /\ UNCHANGED <<Config, consulVars, closeVars,
                   validateErr, ctxDone, storeVars, cmdVars,
                   leaseVars, timerVars, promoteVars, execLog, bgState,
                   execChSent>>

\* execBackgroundCmd: c.cmd.Start(), and on success the goroutine that waits
\* for the command.
execBackgroundStart ==
    /\ pc = "execCmds"
    /\ ~SkipsEntry(execIdx)
    /\ ~RunsSynchronously(execIdx)
    /\ \E startOk \in BOOLEAN :
          /\ cmdErr' = IF startOk THEN "nil" ELSE "start failed"
          /\ IF startOk
             THEN /\ bgState' = "running"
                  /\ execLog' = Append(execLog, [i |-> execIdx, mode |-> "background"])
                  /\ NextEntry
             ELSE /\ execIdx' = 0
                  /\ Return("cannot exec")
                  /\ UNCHANGED <<bgState, execLog>>
    /\ UNCHANGED <<Config, consulVars, closeVars,
                   validateErr, ctxDone, storeVars, cmdVars,
                   leaseVars, timerVars, promoteVars, cmdRunning, execChSent>>

\* go func() { c.execCh <- c.cmd.Wait() }()
execBackgroundExit ==
    /\ bgState = "running"
    /\ bgState' = "exited"
    /\ execChSent' = execChSent + 1
    /\ UNCHANGED <<Config, consulVars, closeVars, cmdErr,
                   pc, validateErr, runErr, ctxDone, storeVars,
                   cmdVars, leaseVars, timerVars, promoteVars, execIdx,
                   cmdRunning, execLog>>

\* ------------------------------------------------------------ environment
\* The caller cancels the context handed to Run.  The cancellation counts as
\* hitting a blocked promote when promote is in the handoff request or in its
\* loop and the timeout has not fired yet (after that it is a tie).
CtxCancel ==
    /\ ~ctxDone
    /\ pc \notin {"new", "done"}
    /\ ctxDone' = TRUE
    /\ cancelledInPromote' = (pc \in {"handoff", "poll"} /\ timeoutC = 0)
    /\ UNCHANGED <<Config, consulVars, closeVars, cmdErr,
                   pc, validateErr, runErr, storeVars, cmdVars,
                   leaseVars, timerVars, promoteErr, entryPrimary,
                   handoffErr, handoffSent, polled, execVars>>

LeaseAcquirable_Always == TRUE

\* Whether the leaser lets the local node take the lease: the static leaser
\* by its constant primary flag, the distributed lock when the key is free.
LeaseAcquirable ==
    IF storeLeaser = "static" THEN staticPrimary ELSE lease = "none"

\* Whether the leaser reports another node as the primary.
PrimaryKnown ==
    IF storeLeaser = "static" THEN ~staticPrimary ELSE lease = "peer"

\* The store's lease monitor acquires the lease: Replica/Initializing ->
\* Primary, and the ready gate fires.  Only candidates attempt it.
StoreAcquireLease ==
    /\ storeOpen
    /\ storeCandidate
    /\ ~isPrimary
    /\ LeaseAcquirable
    /\ isPrimary' = TRUE
    /\ lease' = "local"
    /\ acquiredAt' = clock
    /\ ready' = TRUE
    /\ UNCHANGED <<Config, consulVars, closeVars, cmdErr,
                   pc, validateErr, runErr, ctxDone, storeInit,
                   storeCandidate, storeLeaser, storeOpen, cmdVars,
                   peerPrimary, timerVars, promoteVars, execVars>>

\* Renewal failure or expiry: Primary -> Replica.
StoreLoseLease ==
    /\ isPrimary
    /\ storeLeaser = "consul"
    /\ isPrimary' = FALSE
    /\ lease' = "none"
    /\ UNCHANGED <<Config, consulVars, closeVars, cmdErr,
                   pc, validateErr, runErr, ctxDone, storeInit,
                   storeCandidate, storeLeaser, storeOpen, ready, cmdVars,
                   peerPrimary, acquiredAt, timerVars, promoteVars, execVars>>

\* Whether the node the leaser reports as primary serves a sync connection:
\* it does while its own lease state is Primary (the statically configured
\* primary always is).
PrimaryServes ==
    PrimaryKnown /\ (storeLeaser = "static" \/ peerPrimary)

\* The store connects to the node the leaser reports as primary and the
\* ready gate fires.
StoreConnectPrimary ==
    /\ storeOpen
    /\ ~isPrimary
    /\ ~ready
    /\ PrimaryServes
    /\ ready' = TRUE
    /\ UNCHANGED <<Config, consulVars, closeVars, cmdErr,
                   pc, validateErr, runErr, ctxDone, storeInit,
                   storeCandidate, storeLeaser, storeOpen, isPrimary,
                   cmdVars, leaseVars, timerVars, promoteVars, execVars>>

\* Another node takes the free lock key and becomes Primary.
PeerAcquireLease ==
    /\ storeOpen
    /\ storeLeaser = "consul"
    /\ lease = "none"
    /\ lease' = "peer"
    /\ peerPrimary' = TRUE
    /\ UNCHANGED <<Config, consulVars, closeVars, cmdErr,
                   pc, validateErr, runErr, ctxDone, storeVars,
                   cmdVars, acquiredAt, timerVars, promoteVars, execVars>>

\* The other node demotes itself (renewal failure, voluntary release): its
\* demotion is visible before the lease is released at the backend.
PeerDemote ==
    /\ peerPrimary
    /\ peerPrimary' = FALSE
    /\ UNCHANGED <<Config, consulVars, closeVars, cmdErr,
                   pc, validateErr, runErr, ctxDone, storeVars,
                   cmdVars, lease, acquiredAt, timerVars, promoteVars,
                   execVars>>

\* The lock key of the demoted other node is released or expires.
PeerReleaseLease ==
    /\ storeLeaser = "consul"
    /\ lease = "peer"
    /\ ~peerPrimary
    /\ lease' = "none"
    /\ UNCHANGED <<Config, consulVars, closeVars, cmdErr,
                   pc, validateErr, runErr, ctxDone, storeVars,
                   cmdVars, peerPrimary, acquiredAt, timerVars, promoteVars,
                   execVars>>

\* The components in the order Close visits them.
CloseOrder == <<"ProxyServer", "HTTPServer", "FileSystem", "Store">>

\* "if c.X != nil": whether Close finds the component set.
Initialized(x) ==
    CASE x = "ProxyServer" -> ProxyServer # "nil"
      [] x = "HTTPServer" -> HTTPServer # "nil"
      [] x = "FileSystem" -> FileSystem # "nil"
      [] x = "Store" -> storeInit

FirstErr_Last(err, e) == IF e = "nil" THEN err ELSE e

\* "if e := X.Close(); err == nil { err = e }".
FirstErr(err, e) == IF err = "nil" THEN e ELSE err

\* One "if c.X != nil { ... }" block of Close: the component is shut down
\* and its error, named after the component, is merged into err.
CloseStep(st, x, failing) ==
    IF Initialized(x)
    THEN [log |-> Append(st.log, x),
          err |-> FirstErr(st.err, IF x \in failing THEN x ELSE "nil")]
    ELSE st

\* The four blocks of Close in sequence.
CloseResult(failing) ==
    CloseStep(CloseStep(CloseStep(CloseStep([log |-> <<>>, err |-> "nil"],
        "ProxyServer", failing), "HTTPServer", failing),
        "FileSystem", failing), "Store", failing)

\* MountCommand.Close, called once Run has returned.  The component states
\* "closed" / "unmounted" record that its Close / Unmount was called.
Close ==
    /\ pc = "done"
    /\ closeErr = "none"
    /\ \E failing \in SUBSET {x \in {"ProxyServer", "HTTPServer", "FileSystem", "Store"} :
                                  Initialized(x)} :
          /\ closeLog' = CloseResult(failing).log
          /\ closeErr' = CloseResult(failing).err
          /\ closeFailed' = failing
    /\ ProxyServer' = IF ProxyServer # "nil" THEN "closed" ELSE ProxyServer
    /\ HTTPServer' = IF HTTPServer # "nil" THEN "closed" ELSE HTTPServer
    /\ FileSystem' = IF FileSystem # "nil" THEN "unmounted" ELSE FileSystem
    /\ storeOpen' = FALSE
    /\ UNCHANGED <<Config, consulVars, cmdErr, pc, validateErr, runErr,
                   ctxDone, storeInit, storeCandidate, storeLeaser, ready,
                   isPrimary, Leaser, staticPrimary, leaseVars, timerVars,
                   promoteVars, execVars>>

Next ==
    \/ CallValidate
    \/ initStore
    \/ initHTTPServer
    \/ initProxyServer
    \/ initLeaser
    \/ openStore
    \/ initFileSystem
    \/ serveHTTP
    \/ waitReadyCancelled
    \/ waitReadyFired
    \/ promoteEntry
    \/ handoffReturns
    \/ TimePasses
    \/ pollTick
    \/ pollTimeout
    \/ serveProxy
    \/ execParseFailed
    \/ execSkip
    \/ execSyncStart
    \/ execSyncExit
    \/ execBackgroundStart
    \/ execBackgroundExit
    \/ CtxCancel
    \/ StoreAcquireLease
    \/ StoreLoseLease
    \/ StoreConnectPrimary
    \/ PeerAcquireLease
    \/ PeerDemote
    \/ PeerReleaseLease
    \/ Close

Spec == Init /\ [][Next]_vars

\* Time passes, and Go's select chooses among its ready cases uniformly at
\* random, so a timeout case that stays ready is eventually taken.
FairSpec == Spec /\ WF_vars(TimePasses) /\ WF_vars(pollTimeout)

\* ------------------------------------------------------------- properties
InvalidLeaseTypes == LeaseTypes \ {"consul", "static"}

\* Indices of the exec entries that were started.
Executed == {execLog[k].i : k \in 1..Len(execLog)}

\* C1: when PrimaryInfo reports the node primary at promote's entry, promote
\* has returned success, no handoff request was sent and the poll loop was
\* not entered.
C1_AlreadyPrimaryIsNoOp ==
    entryPrimary = "primary" =>
        /\ promoteErr = "nil"
        /\ handoffSent = 0
        /\ handoffErr = "none"
        /\ ~polled
        /\ pc \notin {"promote", "handoff", "poll"}

C1_Witness ==
    /\ entryPrimary = "primary"
    /\ promoteErr = "nil"
    /\ Leaser = "consul"
    /\ pc = "done"
    /\ runErr = "nil"

\* C2: if the context was cancelled while promote was blocked (in the handoff
\* request or in the poll loop), promote returns the cancellation cause, and
\* in particular never the timeout error.
C2_CancelReturnsCause ==
    (cancelledInPromote /\ promoteErr # "none") =>
        promoteErr = "context canceled"

\* C3: a failed automatic promotion (handoff error or promotion timeout) does
\* not make Run return an error.
C3_FailedPromotionNotFatal ==
    promoteErr \in {"unreachable", "rejected", "timeout"} =>
        runErr \in {"none", "nil"}

\* C4 as stated: for every configuration, the proxy server serves and exec
\* commands are started only once ReadyCh has fired.
C4_NoTrafficBeforeReady ==
    (ProxyServer = "serving" \/ execLog # <<>>) => ready

\* C4 as amended: unless the configuration skips the cluster sync, the proxy
\* server serves and exec commands are started only once ReadyCh has fired.
C4_NoTrafficBeforeReadyUnlessSkipSync ==
    ~Config.skipSync =>
        ((ProxyServer = "serving" \/ execLog # <<>>) => ready)

C4_Witness ==
    /\ ~Config.skipSync
    /\ ProxyServer = "serving"
    /\ execLog # <<>>
    /\ ready

\* C5: when the handoff request returned an error, promote has returned that
\* error without creating its timers or entering the poll loop, so it does
\* not report a timeout.
C5_HandoffErrorReturnedAtOnce ==
    handoffErr \notin {"none", "nil"} =>
        /\ promoteErr = handoffErr
        /\ ~polled
        /\ clock = 0 /\ tickerC = 0 /\ timeoutC = 0
        /\ pc \notin {"handoff", "poll"}

C5_Witness ==
    /\ handoffErr = "unreachable"
    /\ promoteErr = "unreachable"
    /\ pc = "done"

\* C6 as stated: promote does not return the timeout error when the local
\* node became primary before the timeout elapsed and is still primary.
C6_PrimaryBeforeTimeoutSucceeds ==
    [][(pc = "poll" /\ isPrimary /\ acquiredAt < TimeoutTicks)
          => promoteErr' # "timeout"]_vars

\* C6 as amended: promote returns the timeout error only once the timeout
\* ticker has fired, and a poll tick received before that while the local
\* node is primary makes promote return success.
C6_PolledPrimaryBeforeTimeoutSucceeds ==
    [][pc = "poll" =>
          /\ (promoteErr' = "timeout" => timeoutC = 1)
          /\ (isPrimary /\ timeoutC = 0 /\ tickerC = 1 /\ tickerC' = 0
                => promoteErr' = "nil")]_vars

C6_Witness ==
    /\ polled
    /\ handoffErr = "nil"
    /\ promoteErr = "nil"
    /\ isPrimary
    /\ acquiredAt > 0

\* C7: once promote is in its poll loop it leaves it; it leaves it with the
\* timeout error when the node is not primary, and returning the timeout
\* error changes nothing of the lease state.
C7_PromoteTerminates ==
    /\ (pc = "poll") ~> (pc # "poll")
    /\ [][(pc = "poll" /\ pc' # "poll" /\ ~isPrimary)
            => promoteErr' = "timeout"]_vars
    /\ [][(pc = "poll" /\ promoteErr' = "timeout")
            => UNCHANGED <<lease, acquiredAt, isPrimary, ready>>]_vars

C7_Witness ==
    /\ polled
    /\ promoteErr = "timeout"
    /\ ~isPrimary
    /\ pc = "done"

\* C8: on a non-candidate node promote is never called (no handoff request
\* is sent) and no exec entry marked if-candidate is started.
C8_NonCandidateSkipsCandidateWork ==
    ~Config.candidate =>
        /\ pc \notin {"promote", "handoff", "poll"}
        /\ entryPrimary = "none"
        /\ handoffSent = 0
        /\ \A i \in Executed : ~Config.exec[i].ifCandidate

C8_Witness ==
    /\ ~Config.candidate
    /\ Config.promote
    /\ ~Config.skipSync
    /\ Len(Config.exec) = 2
    /\ Config.exec[1].ifCandidate
    /\ Executed = {2}
    /\ pc = "done"
    /\ runErr = "nil"

\* C9: a non-candidate node is never primary, and the primary flag of the
\* static leaser is the configured candidate flag.
C9_NonCandidateNeverPrimary ==
    /\ ~Config.candidate => (~isPrimary /\ lease # "local")
    /\ Leaser = "static" => staticPrimary = Config.candidate

C9_Witness ==
    /\ ~Config.candidate
    /\ storeOpen
    /\ ready
    /\ lease = "none"
    /\ pc = "done"

\* C10: with a lease type other than 'consul' and 'static', Validate does not
\* return nil, and Run returns an error with no leaser assigned, the store
\* not opened, nothing mounted, no server serving and no command started.
C10_InvalidLeaseTypeIsFatal ==
    Config.leaseType \in InvalidLeaseTypes =>
        /\ validateErr # "nil"
        /\ Leaser = "nil"
        /\ storeLeaser = "nil"
        /\ ~storeOpen
        /\ FileSystem = "nil"
        /\ HTTPServer # "serving"
        /\ ProxyServer # "serving"
        /\ execLog = <<>>
        /\ pc = "done" => runErr \notin {"none", "nil"}

C10_Witness ==
    /\ Config.leaseType = "etcd"
    /\ pc = "done"
    /\ runErr = "invalid lease type"
    /\ HTTPServer = "listening"
    /\ ProxyServer = "listening"

\* C11: at most one node is in the Primary lease state, and a node that is
\* Primary is the holder of the lock key, whatever the interleaving of
\* acquisitions, losses, releases and handoffs.
C11_AtMostOnePrimary ==
    /\ ~(isPrimary /\ peerPrimary)
    /\ isPrimary => lease = "local"
    /\ peerPrimary => lease = "peer"

\* The local node took the lease over through a handoff.
C11_Witness ==
    /\ handoffErr = "nil"
    /\ isPrimary
    /\ ~peerPrimary
    /\ lease = "local"
    /\ pc = "poll"

\* Run is past its readiness wait (which it had, sync not being skipped).
PassedReadyWait ==
    /\ ~Config.skipSync
    /\ \/ pc \in {"promote", "handoff", "poll", "serveProxy", "execCmds", "execSync"}
       \/ runErr \in {"nil", "promote", "cannot exec"}

\* C12: the ready gate fires only in a step that makes the node Primary, or
\* while the node it synchronises with is Primary; and Run is past its
\* readiness wait only when the gate has fired.
C12_ReadyMeansPrimaryOrConnected ==
    /\ [][(~ready /\ ready') =>
            \/ isPrimary' /\ lease' = "local"
            \/ lease = "peer" /\ peerPrimary
            \/ storeLeaser = "static" /\ ~staticPrimary]_vars
    /\ [](PassedReadyWait => ready)

C12_Witness ==
    /\ PassedReadyWait
    /\ ready
    /\ ~isPrimary
    /\ lease = "peer"
    /\ pc = "serveProxy"

\* C13: when leaser.Open() failed it was called exactly once, initConsul
\* returned the error with c.Leaser left unset, and Run returned an error
\* without opening the store, mounting the file system or serving.
C13_ConsulOpenFailureIsFatal ==
    /\ consulOpens <= 1
    /\ consulOpenErr = "connection error" =>
          /\ consulOpens = 1
          /\ Leaser = "nil"
          /\ storeLeaser = "nil"
          /\ pc = "done"
          /\ runErr = "cannot init consul"
          /\ ~storeOpen
          /\ FileSystem = "nil"
          /\ HTTPServer # "serving"
          /\ ProxyServer # "serving"
          /\ execLog = <<>>

C13_Witness ==
    /\ consulOpenErr = "connection error"
    /\ consulOpens = 1
    /\ runErr = "cannot init consul"
    /\ ProxyServer = "listening"

\* C14: when Run leaves its readiness wait with the context cancelled and
\* ReadyCh not fired, it returns the cancellation cause; and once it has
\* returned the cancellation cause, promote was never called, the proxy
\* server does not serve and no exec command was started.
C14_CancelledWaitReturnsCause ==
    /\ [][(pc = "waitReady" /\ ctxDone /\ ~ready /\ pc' # "waitReady")
            => (pc' = "done" /\ runErr' = "context canceled")]_vars
    /\ [](runErr = "context canceled" =>
            /\ pc = "done"
            /\ entryPrimary = "none"
            /\ promoteErr = "none"
            /\ handoffSent = 0
            /\ ProxyServer # "serving"
            /\ execLog = <<>>)

C14_Witness ==
    /\ runErr = "context canceled"
    /\ ctxDone
    /\ ~ready
    /\ Config.promote
    /\ Config.proxyTarget
    /\ Len(Config.exec) > 0

\* C15: the exec entries are started in configuration order; an entry is
\* started in the background exactly when it is the last of the list; no
\* entry is started while a synchronous one is still running; and once
\* execCmds has failed no entry is started any more.
C15_ExecInOrderSyncThenBackground ==
    /\ [](/\ \A k \in 1..Len(execLog) - 1 : execLog[k].i < execLog[k + 1].i
          /\ \A k \in 1..Len(execLog) :
                (execLog[k].mode = "background") <=> (execLog[k].i = Len(Config.exec))
          /\ cmdRunning # 0 => (pc = "execSync" /\ execLog[Len(execLog)].i = cmdRunning))
    /\ [][execLog' # execLog => (cmdRunning = 0 /\ runErr = "none")]_vars
    /\ [](cmdErr \in {"parse failed", "run failed", "start failed"} =>
            (pc = "done" /\ runErr = "cannot exec"))
    /\ [][runErr = "cannot exec" => execLog' = execLog]_vars

\* A synchronous command ran to completion and then the last entry was
\* started in the background.
C15_Witness ==
    /\ Len(Config.exec) = 2
    /\ Len(execLog) = 2
    /\ execLog[1].mode = "sync"
    /\ execLog[2].mode = "background"
    /\ runErr = "nil"

\* Whether the last entry of the exec list is one this node skips.
LastEntrySkipped ==
    /\ Len(Config.exec) > 0
    /\ Config.exec[Len(Config.exec)].ifCandidate
    /\ ~Config.candidate

\* C16: at most one exit is sent on ExecCh, that of the last entry of the
\* list started in the background; none is sent when the last entry is
\* skipped, or when execCmds returned an error.
C16_AtMostOneExitOnExecCh ==
    /\ execChSent <= 1
    /\ execChSent = 1 =>
          /\ bgState = "exited"
          /\ execLog # <<>>
          /\ execLog[Len(execLog)] = [i |-> Len(Config.exec), mode |-> "background"]
    /\ LastEntrySkipped => (execChSent = 0 /\ bgState = "none")
    /\ runErr = "cannot exec" => (execChSent = 0 /\ bgState = "none")

C16_Witness ==
    /\ execChSent = 1
    /\ Len(Config.exec) = 2
    /\ Executed = {2}
    /\ runErr = "nil"

\* Run calls promote once it is ready.
PromotesOnReady == ~Config.skipSync /\ Config.promote /\ Config.candidate

\* C17: the store is open only with the leaser assigned to it; the file
\* system is mounted only with the store open; the HTTP server serves only
\* with the file system mounted and serves when Run waits for readiness; the
\* proxy server serves only after the automatic promotion (if any) returned
\* nil; and exec commands are started only after the proxy server (if any)
\* has begun to serve.
C17_StartupOrder ==
    /\ storeOpen => (Leaser # "nil" /\ storeLeaser = Leaser)
    /\ FileSystem = "mounted" => storeOpen
    /\ HTTPServer = "serving" => FileSystem = "mounted"
    /\ pc = "waitReady" => HTTPServer = "serving"
    /\ ProxyServer = "serving" =>
          /\ HTTPServer = "serving"
          /\ promoteErr \in {"none", "nil"}
          /\ PromotesOnReady => promoteErr = "nil"
    /\ execLog # <<>> => ProxyServer \in {"nil", "serving", "closed"}

C17_Witness ==
    /\ PromotesOnReady
    /\ promoteErr = "nil"
    /\ ProxyServer = "serving"
    /\ execLog # <<>>
    /\ runErr = "nil"
    /\ closeErr = "none"

\* C18: promote returns nil only from its entry check with the node primary,
\* or from a poll tick taken after a successful handoff with the node
\* primary.
C18_SuccessOnlyWhenObservedPrimary ==
    [][(promoteErr = "none" /\ promoteErr' = "nil") =>
          \/ pc = "promote" /\ isPrimary
          \/ pc = "poll" /\ handoffErr = "nil" /\ tickerC = 1 /\ isPrimary]_vars

C18_Witness ==
    /\ promoteErr = "nil"
    /\ entryPrimary = "replica"
    /\ handoffErr = "nil"
    /\ pc = "serveProxy"

\* C19: with the static leaser no handoff request is sent: a non-candidate
\* never calls promote, and a candidate (whose static primary flag is true,
\* so that it is primary once ready) leaves promote at its already-primary
\* check.
C19_StaticNeverHandsOff ==
    Leaser = "static" =>
        /\ staticPrimary = Config.candidate
        /\ handoffSent = 0
        /\ pc \notin {"handoff", "poll"}
        /\ entryPrimary \in {"none", "primary"}
        /\ ~Config.candidate => entryPrimary = "none"
        /\ (Config.candidate /\ ready /\ storeOpen) => isPrimary

C19_Witness ==
    /\ Leaser = "static"
    /\ Config.candidate
    /\ Config.promote
    /\ entryPrimary = "primary"
    /\ promoteErr = "nil"
    /\ handoffSent = 0

\* The components Close found set, in the order Close visits them.
InitializedInOrder == SelectSeq(CloseOrder, Initialized)

\* The positions of closeLog whose component failed to shut down.
FailedAt == {k \in 1..Len(closeLog) : closeLog[k] \in closeFailed}

\* C20: once Close has returned, it has shut down exactly the initialized
\* components, each once, in the order proxy server, HTTP server, file
\* system, store, whichever of them failed; and it returned the error of the
\* first one that failed, nil if none did.
C20_CloseShutsDownAllReturnsFirstError ==
    closeErr # "none" =>
        /\ closeLog = InitializedInOrder
        /\ \A j, k \in 1..Len(closeLog) : closeLog[j] = closeLog[k] => j = k
        /\ ProxyServer \in {"nil", "closed"}
        /\ HTTPServer \in {"nil", "closed"}
        /\ FileSystem \in {"nil", "unmounted"}
        /\ ~storeOpen
        /\ closeErr = IF FailedAt = {} THEN "nil"
                      ELSE closeLog[CHOOSE k \in FailedAt : \A j \in FailedAt : k <= j]

C20_Witness ==
    /\ closeLog = CloseOrder
    /\ closeFailed = {"HTTPServer", "Store"}
    /\ closeErr = "HTTPServer"
====
